---------------------------- MODULE Spec2Model ----------------------------
(***************************************************************************)
(* A model of chatapp-backend/chatapp.py: the ingest handler               *)
(* SendMessage.post (Redis INCR, RPUSH, PUBLISH) and the websocket         *)
(* session WebSocketConnection.get with its inner handle_request (LRANGE   *)
(* backfill, forwarding of the pub/sub channel, keepalive timeout).        *)
(*                                                                         *)
(* Text is a sequence of one-character strings.  A Message carries its id  *)
(* and its content; name, email, topic and date go through the same        *)
(* html.escape as content and take no part in any control decision, so     *)
(* they are left out of the record.                                        *)
(***************************************************************************)
EXTENDS Integers, Sequences, FiniteSets, TLC

VARIABLES
    redisId,        \* Redis key REDIS_ID_KEY: the id counter
    redisMessages,  \* Redis list REDIS_MESSAGES_KEY: the pickled messages
    published,      \* every payload handed to r.publish so far, in order
    cpc,            \* per ingest call: where SendMessage.post stands
    cmsg,           \* per ingest call: its local variable `message`
    spc,            \* per session: where WebSocketConnection.get stands
    channel,        \* per session: frames waiting on its pub/sub connection
    missed,         \* per session: the payloads published before it subscribed
    request,        \* per session: the request handle_request last answered
    window,         \* per session: its first, last at r.lrange for that request
    fetched,        \* per session: length of the list when that r.lrange ran
    reply,          \* per session: last batch sent by handle_request
    pushed,         \* per session: payloads forwarded from the channel
    watch           \* per watched session: the last event of its loop, and
                    \* the keepalive timeouts in a row that found nothing

storeVars == <<redisId, redisMessages>>
callVars == <<cpc, cmsg>>
sessVars ==
    <<spc, channel, missed, request, window, fetched, reply, pushed, watch>>
vars == <<redisId, redisMessages, published, cpc, cmsg, spc, channel, missed,
          request, window, fetched, reply, pushed, watch>>

-----------------------------------------------------------------------------
(* Bounds of the model. *)

MaxCalls == 2

MaxSessions == 1

MaxLogLen == 52

MaxIndex == 52

WatchCalls == 1

MaxTimeouts == 3

(* Program constants. *)

MaxFetch == 50

IdWidth == 10

REDIS_CHANNEL == "messages"

\* a local variable not yet assigned; once assigned it holds <<value>>
None == <<>>

\* Message(): the class attributes id = 0 and content = ""
NewMessage == [id |-> 0, content |-> <<>>]

-----------------------------------------------------------------------------
(* Text helpers. *)

Digit(d) ==
    CASE d = 0 -> "0" [] d = 1 -> "1" [] d = 2 -> "2" [] d = 3 -> "3"
      [] d = 4 -> "4" [] d = 5 -> "5" [] d = 6 -> "6" [] d = 7 -> "7"
      [] d = 8 -> "8" [] d = 9 -> "9"

RECURSIVE Str(_)
\* str(n) for a natural number n
Str(n) == IF n < 10 THEN <<Digit(n)>> ELSE Str(n \div 10) \o <<Digit(n % 10)>>

RECURSIVE ZFill(_, _)
\* s.zfill(w) for a text without sign
ZFill(s, w) == IF Len(s) >= w THEN s ELSE ZFill(<<"0">> \o s, w)

EscapeChar(c) ==
    CASE c = "&" -> <<"&", "a", "m", "p", ";">>
      [] c = "<" -> <<"&", "l", "t", ";">>
      [] c = ">" -> <<"&", "g", "t", ";">>
      [] OTHER -> <<c>>

RECURSIVE HtmlEscape(_)
\* html.escape(s)
HtmlEscape(s) ==
    IF s = <<>> THEN <<>> ELSE EscapeChar(Head(s)) \o HtmlEscape(Tail(s))

RECURSIVE ReplaceNewline(_)
\* s.replace("\n", "<br>")
ReplaceNewline(s) ==
    IF s = <<>> THEN <<>>
    ELSE (IF Head(s) = "\n" THEN <<"<", "b", "r", ">">> ELSE <<Head(s)>>)
         \o ReplaceNewline(Tail(s))

\* json.dumps of a list of mappings: the JSON text, kept as a tagged value
JsonDumps(x) == <<"json", x>>

\* one entry of messages_to_encode
EncodeMessage(m) ==
    [id |-> HtmlEscape(ZFill(Str(m.id), IdWidth)),
     content |-> ReplaceNewline(HtmlEscape(m.content))]

\* encode_messages(messages)
encode_messages(messages) ==
    JsonDumps([i \in 1..Len(messages) |-> EncodeMessage(messages[i])])

\* pickle.dumps(message) and pickle.loads(bytes)
PickleDumps(m) == <<"pickle", m.id, m.content>>

PickleLoads(b) == [id |-> b[2], content |-> b[3]]

\* The contents clients post: plain text, and text with markup and a newline.
Contents == <<(<<"h", "i">>), (<<"<", "\n">>)>>

\* The content of the p-th post.  The program never branches on a content
\* (it is only pickled and escaped), so one content per call, both kinds
\* taking turns, stands for every choice.
Posted(p) == {Contents[((p - 1) % Len(Contents)) + 1]}

-----------------------------------------------------------------------------
(* The Redis commands the program issues. *)

\* a faulty range read: stop is exclusive, as in a Python slice
LRangeStopExclusive(list, start, stop) ==
    LET n == Len(list)
        s0 == IF start < 0 THEN n + start ELSE start
        e0 == (IF stop < 0 THEN n + stop ELSE stop) - 1
        s == IF s0 < 0 THEN 0 ELSE s0
        e == IF e0 >= n THEN n - 1 ELSE e0
    IN  IF s > e \/ s >= n THEN <<>> ELSE SubSeq(list, s + 1, e + 1)

\* LRANGE key start stop: inclusive, negative indexes count from the tail
LRange(list, start, stop) ==
    LET n == Len(list)
        s0 == IF start < 0 THEN n + start ELSE start
        e0 == IF stop < 0 THEN n + stop ELSE stop
        s == IF s0 < 0 THEN 0 ELSE s0
        e == IF e0 >= n THEN n - 1 ELSE e0
    IN  IF s > e \/ s >= n THEN <<>> ELSE SubSeq(list, s + 1, e + 1)

\* the frame a pub/sub connection receives for its SUBSCRIBE
SubscribeAck == <<"subscribe", REDIS_CHANNEL, 1>>

\* the frame a pub/sub connection receives for a PUBLISH
DataFrame(payload) == <<"message", REDIS_CHANNEL, payload>>

\* the sessions a PUBLISH reaches: those inside their loop, subscribed
Subscribed == {s \in DOMAIN spc : spc[s] = "waiting"}

-----------------------------------------------------------------------------
(* SendMessage.post, one ingest call p. *)

\* a faulty id assignment: the id is taken from the length of the list
IncrFromLength(p, content) ==
    /\ cpc[p] = "idle"
    /\ \A q \in DOMAIN cpc : q < p => cpc[q] # "idle"
    /\ redisId' = redisId + 1
    /\ cmsg' = [cmsg EXCEPT ![p] = [id |-> Len(redisMessages) + 1,
                                    content |-> content]]
    /\ cpc' = [cpc EXCEPT ![p] = "assigned"]
    /\ UNCHANGED <<redisMessages, published, sessVars>>

\* lines 67-83: build the Message from the request (steps local to the
\* call), then message.id = r.incr(REDIS_ID_KEY), one atomic Redis command.
\* Calls are numbered in the order in which they reach this line.
Incr(p, content) ==
    /\ cpc[p] = "idle"
    /\ \A q \in DOMAIN cpc : q < p => cpc[q] # "idle"
    /\ redisId' = redisId + 1
    /\ cmsg' = [cmsg EXCEPT ![p] = [id |-> redisId + 1, content |-> content]]
    /\ cpc' = [cpc EXCEPT ![p] = "assigned"]
    /\ UNCHANGED <<redisMessages, published, sessVars>>

\* a faulty append: lpush for rpush, the message goes to the head of the list
RpushAtHead(p) ==
    /\ cpc[p] = "assigned"
    /\ redisMessages' = <<PickleDumps(cmsg[p])>> \o redisMessages
    /\ cpc' = [cpc EXCEPT ![p] = "appended"]
    /\ UNCHANGED <<redisId, cmsg, published, sessVars>>

\* a faulty append: the rpush is sent again after a lost answer, and the
\* message is stored twice
RpushTwice(p) ==
    /\ cpc[p] = "assigned"
    /\ redisMessages' =
           redisMessages \o <<PickleDumps(cmsg[p]), PickleDumps(cmsg[p])>>
    /\ cpc' = [cpc EXCEPT ![p] = "appended"]
    /\ UNCHANGED <<redisId, cmsg, published, sessVars>>

\* line 84: r.rpush(REDIS_MESSAGES_KEY, pickle.dumps(message))
Rpush(p) ==
    /\ cpc[p] = "assigned"
    /\ redisMessages' = Append(redisMessages, PickleDumps(cmsg[p]))
    /\ cpc' = [cpc EXCEPT ![p] = "appended"]
    /\ UNCHANGED <<redisId, cmsg, published, sessVars>>

\* a faulty failure path: the id is given back when the rpush fails
RpushFailGivesIdBack(p) ==
    /\ cpc[p] = "assigned"
    /\ redisId' = redisId - 1
    /\ cpc' = [cpc EXCEPT ![p] = "append_failed"]
    /\ UNCHANGED <<redisMessages, cmsg, published, sessVars>>

\* lines 78-84: the rpush fails, or the process stops before it
RpushFail(p) ==
    /\ cpc[p] = "assigned"
    /\ cpc' = [cpc EXCEPT ![p] = "append_failed"]
    /\ UNCHANGED <<storeVars, cmsg, published, sessVars>>

\* a faulty publish: it waits until every subscriber has read what was sent
\* to it before
PublishWaitsForReaders(p) ==
    LET payload == encode_messages(<<cmsg[p]>>)
    IN  /\ cpc[p] = "appended"
        /\ \A s \in Subscribed : channel[s] = <<>>
        /\ published' = Append(published, payload)
        /\ channel' = [s \in DOMAIN channel |->
                          IF s \in Subscribed
                          THEN Append(channel[s], DataFrame(payload))
                          ELSE channel[s]]
        /\ cpc' = [cpc EXCEPT ![p] = "done"]
        /\ UNCHANGED <<storeVars, cmsg, spc, missed, request, window,
                       fetched, reply, pushed, watch>>

\* a faulty post: the payload is published as soon as the id is there, and
\* the call returns without the rpush
PublishBeforeAppend(p) ==
    LET payload == encode_messages(<<cmsg[p]>>)
    IN  /\ cpc[p] = "assigned"
        /\ published' = Append(published, payload)
        /\ channel' = [s \in DOMAIN channel |->
                          IF s \in Subscribed
                          THEN Append(channel[s], DataFrame(payload))
                          ELSE channel[s]]
        /\ cpc' = [cpc EXCEPT ![p] = "done"]
        /\ UNCHANGED <<storeVars, cmsg, spc, missed, request, window,
                       fetched, reply, pushed, watch>>

\* line 88: r.publish(REDIS_CHANNEL, encode_messages([message]))
Publish(p) ==
    LET payload == encode_messages(<<cmsg[p]>>)
    IN  /\ cpc[p] = "appended"
        /\ published' = Append(published, payload)
        /\ channel' = [s \in DOMAIN channel |->
                          IF s \in Subscribed
                          THEN Append(channel[s], DataFrame(payload))
                          ELSE channel[s]]
        /\ cpc' = [cpc EXCEPT ![p] = "done"]
        /\ UNCHANGED <<storeVars, cmsg, spc, missed, request, window,
                       fetched, reply, pushed, watch>>

-----------------------------------------------------------------------------
(* WebSocketConnection.get, one session s. *)

\* a client frame {"first_id": first, "last_id": last}
Request(first, last) == [valid |-> TRUE, first_id |-> first, last_id |-> last]

\* a client frame that json.loads, the field lookup or int() rejects
Malformed == [valid |-> FALSE, first_id |-> 0, last_id |-> 0]

\* The record of a watched session's loop: what its last pass through the
\* loop was, and how many keepalive timeouts in a row found nothing (counted
\* up to MaxTimeouts).  A session that is not watched leaves no record.
Watch(s, event, timeouts) ==
    watch' = IF s \in DOMAIN watch
             THEN [watch EXCEPT ![s] = [event |-> event, timeouts |-> timeouts]]
             ELSE watch

\* a faulty exit: the sessions share one pub/sub connection, and a session
\* that leaves takes every session's subscription with it
LeaveClosesAll(s, how) ==
    /\ spc' = [spc EXCEPT ![s] = how]
    /\ channel' = [t \in DOMAIN channel |-> <<>>]

\* the return, or the exception leaving get(): the pub/sub connection goes
\* with the handler's locals, so the session is no longer subscribed
Leave(s, how) ==
    /\ spc' = [spc EXCEPT ![s] = how]
    /\ channel' = [channel EXCEPT ![s] = <<>>]

\* a faulty clamp: the tail sentinel (last < 0) is not clamped
ClampPositiveOnly(first, last) ==
    IF last > 0 /\ last - MaxFetch > first THEN last - MaxFetch ELSE first

\* lines 102-103: the first index handed to r.lrange
EffectiveFirst(first, last) ==
    IF (last > 0 /\ last - MaxFetch > first) \/ last < 0
    THEN last - MaxFetch
    ELSE first

\* a faulty fetch: the indexes are taken for ids and shifted to positions
FetchMessagesOneBased(first, last) ==
    LET pickled_messages == LRange(redisMessages, first - 1, last - 1)
    IN  [i \in 1..Len(pickled_messages) |-> PickleLoads(pickled_messages[i])]

\* lines 104-108: the messages fetched for a parsed request
FetchMessages(first, last) ==
    LET pickled_messages == LRange(redisMessages, first, last)
    IN  [i \in 1..Len(pickled_messages) |-> PickleLoads(pickled_messages[i])]

\* lines 95-110: handle_request(r, msg) running to its end, or raising on a
\* frame it cannot parse (not an IOError: the exception leaves get())
handle_request(s, msg) ==
    IF ~msg.valid
    THEN /\ Leave(s, "raised")
         /\ Watch(s, "malformed", 0)
         /\ UNCHANGED <<missed, request, window, fetched, reply, pushed>>
    ELSE LET first == EffectiveFirst(msg.first_id, msg.last_id)
             last == msg.last_id
         IN  /\ request' = [request EXCEPT ![s] = <<msg>>]
             /\ window' = [window EXCEPT ![s] = <<first, last>>]
             /\ fetched' = [fetched EXCEPT ![s] = <<Len(redisMessages)>>]
             /\ reply' = [reply EXCEPT ![s] =
                              <<encode_messages(FetchMessages(first, last))>>]
             /\ Watch(s, "reply", 0)
             /\ UNCHANGED <<spc, channel, missed, pushed>>

\* line 104 raising: the store is unreachable (a redis error, not an
\* IOError), the exception leaves get()
handle_request_store_error(s, msg) ==
    /\ msg.valid
    /\ Leave(s, "raised")
    /\ Watch(s, "store_error", 0)
    /\ UNCHANGED <<missed, request, window, fetched, reply, pushed>>

\* line 110 raising IOError, caught at line 149 or 171: return
handle_request_send_error(s, msg) ==
    /\ msg.valid
    /\ Leave(s, "terminated")
    /\ Watch(s, "reply_error", 0)
    /\ UNCHANGED <<missed, request, window, fetched, reply, pushed>>

\* a faulty subscription: the channel replays what was published before
HandshakeWithReplay(s) ==
    /\ spc[s] = "handshaking"
    /\ \A q \in DOMAIN spc : q < s => spc[q] # "handshaking"
    /\ spc' = [spc EXCEPT ![s] = "waiting"]
    /\ channel' = [channel EXCEPT ![s] =
                      <<SubscribeAck>>
                          \o [i \in DOMAIN published |-> DataFrame(published[i])]]
    /\ missed' = [missed EXCEPT ![s] = {published[i] : i \in DOMAIN published}]
    /\ UNCHANGED <<storeVars, published, callVars, request, window, fetched,
                   reply, pushed, watch>>

\* lines 114-126: handshake, then subscribe to REDIS_CHANNEL.  Sessions are
\* numbered in the order in which they connect.
Handshake(s) ==
    /\ spc[s] = "handshaking"
    /\ \A q \in DOMAIN spc : q < s => spc[q] # "handshaking"
    /\ spc' = [spc EXCEPT ![s] = "waiting"]
    /\ channel' = [channel EXCEPT ![s] = <<SubscribeAck>>]
    /\ missed' = [missed EXCEPT ![s] = {published[i] : i \in DOMAIN published}]
    /\ UNCHANGED <<storeVars, published, callVars, request, window, fetched,
                   reply, pushed, watch>>

\* lines 143-147: the websocket is readable and holds a frame
WebsocketFrame(s, msg) ==
    /\ spc[s] = "waiting"
    /\ handle_request(s, msg)
    /\ UNCHANGED <<storeVars, published, callVars>>

\* lines 143-147 with line 104 raising (from the timeout branch, lines
\* 166-169, the step is the same)
WebsocketStoreError(s, msg) ==
    /\ spc[s] = "waiting"
    /\ handle_request_store_error(s, msg)
    /\ UNCHANGED <<storeVars, published, callVars>>

\* lines 143-153 with line 110 raising IOError (from the timeout branch,
\* lines 166-175, the step is the same)
WebsocketSendError(s, msg) ==
    /\ spc[s] = "waiting"
    /\ handle_request_send_error(s, msg)
    /\ UNCHANGED <<storeVars, published, callVars>>

\* lines 143-146: the websocket is readable, websocket_recv_nb returns no
\* message (a ping or pong was handled)
WebsocketEmpty(s) ==
    /\ spc[s] = "waiting"
    /\ Watch(s, "ping", 0)
    /\ UNCHANGED <<storeVars, published, callVars, spc, channel, missed,
                   request, window, fetched, reply, pushed>>

\* lines 145, 149-153: websocket_recv_nb raises IOError, return
WebsocketIOError(s) ==
    /\ spc[s] = "waiting"
    /\ Leave(s, "terminated")
    /\ Watch(s, "recv_error", 0)
    /\ UNCHANGED <<storeVars, published, callVars, missed, request, window,
                   fetched, reply, pushed>>

\* a faulty forwarder: data frames are dropped like control frames
RedisFrameDropped(s) ==
    /\ spc[s] = "waiting"
    /\ channel[s] # <<>>
    /\ channel' = [channel EXCEPT ![s] = Tail(channel[s])]
    /\ Watch(s, "control", 0)
    /\ UNCHANGED <<storeVars, published, callVars, spc, missed, request,
                   window, fetched, reply, pushed>>

\* a faulty forwarder: the parsed frame is sent on whole, not its payload
RedisFrameForwardsFrame(s) ==
    /\ spc[s] = "waiting"
    /\ channel[s] # <<>>
    /\ LET msg == Head(channel[s])
       IN  /\ channel' = [channel EXCEPT ![s] = Tail(channel[s])]
           /\ pushed' = [pushed EXCEPT ![s] =
                            IF msg[1] = "message"
                            THEN Append(pushed[s], msg)
                            ELSE pushed[s]]
           /\ Watch(s, IF msg[1] = "message" THEN "push" ELSE "control", 0)
    /\ UNCHANGED <<storeVars, published, callVars, spc, missed, request,
                   window, fetched, reply>>

\* lines 154-162: the pub/sub connection is readable; one frame is parsed,
\* and a data frame's payload is sent on to the client
RedisFrame(s) ==
    /\ spc[s] = "waiting"
    /\ channel[s] # <<>>
    /\ LET msg == Head(channel[s])
       IN  /\ channel' = [channel EXCEPT ![s] = Tail(channel[s])]
           /\ pushed' = [pushed EXCEPT ![s] =
                            IF msg[1] = "message"
                            THEN Append(pushed[s], msg[3])
                            ELSE pushed[s]]
           /\ Watch(s, IF msg[1] = "message" THEN "push" ELSE "control", 0)
    /\ UNCHANGED <<storeVars, published, callVars, spc, missed, request,
                   window, fetched, reply>>

\* line 162 raising IOError, outside any try: the exception leaves get()
RedisFrameSendError(s) ==
    /\ spc[s] = "waiting"
    /\ channel[s] # <<>>
    /\ Head(channel[s])[1] = "message"
    /\ Leave(s, "raised")
    /\ Watch(s, "push_error", 0)
    /\ UNCHANGED <<storeVars, published, callVars, missed, request, window,
                   fetched, reply, pushed>>

\* line 157 raising: the pub/sub connection is lost, the exception leaves get()
RedisReadError(s) ==
    /\ spc[s] = "waiting"
    /\ Leave(s, "raised")
    /\ Watch(s, "subscription_error", 0)
    /\ UNCHANGED <<storeVars, published, callVars, missed, request, window,
                   fetched, reply, pushed>>

\* lines 163-169: nothing was readable for 3 seconds; a frame that has
\* arrived by now is handled
TimeoutFrame(s, msg) ==
    /\ spc[s] = "waiting"
    /\ channel[s] = <<>>
    /\ handle_request(s, msg)
    /\ UNCHANGED <<storeVars, published, callVars>>

\* a faulty keepalive: a timeout that finds no client frame is taken for the
\* end of the connection, and the session returns
TimeoutIdleCloses(s) ==
    /\ spc[s] = "waiting"
    /\ channel[s] = <<>>
    /\ Leave(s, "terminated")
    /\ Watch(s, "timeout",
             IF s \in DOMAIN watch /\ watch[s].timeouts < MaxTimeouts
             THEN watch[s].timeouts + 1
             ELSE MaxTimeouts)
    /\ UNCHANGED <<storeVars, published, callVars, missed, request, window,
                   fetched, reply, pushed>>

\* lines 163-168: nothing was readable for 3 seconds and nothing has arrived
TimeoutIdle(s) ==
    /\ spc[s] = "waiting"
    /\ channel[s] = <<>>
    /\ Watch(s, "timeout",
             IF s \in DOMAIN watch /\ watch[s].timeouts < MaxTimeouts
             THEN watch[s].timeouts + 1
             ELSE MaxTimeouts)
    /\ UNCHANGED <<storeVars, published, callVars, spc, channel, missed,
                   request, window, fetched, reply, pushed>>

\* lines 167, 171-175: the keepalive read raises IOError, return
TimeoutIOError(s) ==
    /\ spc[s] = "waiting"
    /\ channel[s] = <<>>
    /\ Leave(s, "terminated")
    /\ Watch(s, "recv_error", 0)
    /\ UNCHANGED <<storeVars, published, callVars, missed, request, window,
                   fetched, reply, pushed>>

-----------------------------------------------------------------------------
(* The system: MaxCalls ingest calls and MaxSessions sessions on an empty  *)
(* store.                                                                  *)

Calls == 1..MaxCalls

Sessions == 1..MaxSessions

\* the frames the clients of the system send
ClientFrames ==
    {Request(0, -1), Malformed}

\* the requests among them
ClientRequests == {msg \in ClientFrames : msg.valid}

Init ==
    /\ redisId = 0
    /\ redisMessages = <<>>
    /\ published = <<>>
    /\ cpc = [p \in Calls |-> "idle"]
    /\ cmsg = [p \in Calls |-> NewMessage]
    /\ spc = [s \in Sessions |-> "handshaking"]
    /\ channel = [s \in Sessions |-> <<>>]
    /\ missed = [s \in Sessions |-> {}]
    /\ request = [s \in Sessions |-> None]
    /\ window = [s \in Sessions |-> None]
    /\ fetched = [s \in Sessions |-> None]
    /\ reply = [s \in Sessions |-> None]
    /\ pushed = [s \in Sessions |-> <<>>]
    /\ watch = <<>>

Next ==
    \/ \E p \in DOMAIN cpc : \E content \in Posted(p) : Incr(p, content)
    \/ \E p \in DOMAIN cpc : Rpush(p)
    \/ \E p \in DOMAIN cpc : RpushFail(p)
    \/ \E p \in DOMAIN cpc : Publish(p)
    \/ \E s \in DOMAIN spc : Handshake(s)
    \/ \E s \in DOMAIN spc, msg \in ClientFrames : WebsocketFrame(s, msg)
    \/ \E s \in DOMAIN spc, msg \in ClientRequests : WebsocketStoreError(s, msg)
    \/ \E s \in DOMAIN spc, msg \in ClientRequests : WebsocketSendError(s, msg)
    \/ \E s \in DOMAIN spc : WebsocketEmpty(s)
    \/ \E s \in DOMAIN spc : WebsocketIOError(s)
    \/ \E s \in DOMAIN spc : RedisFrame(s)
    \/ \E s \in DOMAIN spc : RedisFrameSendError(s)
    \/ \E s \in DOMAIN spc : RedisReadError(s)
    \/ \E s \in DOMAIN spc, msg \in ClientFrames : TimeoutFrame(s, msg)
    \/ \E s \in DOMAIN spc : TimeoutIdle(s)
    \/ \E s \in DOMAIN spc : TimeoutIOError(s)

Spec == Init /\ [][Next]_vars

\* The session's loop goes round as long as the process runs, and a readable
\* pub/sub connection wakes it: a frame waiting on it is read in the end.
LiveSpec == Spec /\ \A s \in Sessions : WF_vars(RedisFrame(s))

-----------------------------------------------------------------------------
(* The same system with WatchCalls ingest calls and a pair of sessions,     *)
(* both watched: one to fail, one to go on.                                *)

Watched == {1, 2}

InitWatch ==
    /\ redisId = 0
    /\ redisMessages = <<>>
    /\ published = <<>>
    /\ cpc = [p \in 1..WatchCalls |-> "idle"]
    /\ cmsg = [p \in 1..WatchCalls |-> NewMessage]
    /\ spc = [s \in Watched |-> "handshaking"]
    /\ channel = [s \in Watched |-> <<>>]
    /\ missed = [s \in Watched |-> {}]
    /\ request = [s \in Watched |-> None]
    /\ window = [s \in Watched |-> None]
    /\ fetched = [s \in Watched |-> None]
    /\ reply = [s \in Watched |-> None]
    /\ pushed = [s \in Watched |-> <<>>]
    /\ watch = [s \in Watched |-> [event |-> "none", timeouts |-> 0]]

SpecWatch == InitWatch /\ [][Next]_vars

-----------------------------------------------------------------------------
(* Backfill on a filled store: n ingest calls have run one after another   *)
(* and returned, then a session connected and read its subscribe           *)
(* acknowledgment; its client sends one frame.                             *)

\* the message the p-th of these calls stored
StoredMessage(p) ==
    [id |-> p, content |-> Contents[((p - 1) % Len(Contents)) + 1]]

\* the frames of this client: every index pair near the window size, and
\* the example of the specification
FetchFrames ==
    {Request(first, last) : first, last \in -MaxIndex..MaxIndex}
        \cup {Request(0, 120)}

InitFetch ==
    \E n \in 0..MaxLogLen :
        /\ redisId = n
        /\ redisMessages = [p \in 1..n |-> PickleDumps(StoredMessage(p))]
        /\ published = [p \in 1..n |-> encode_messages(<<StoredMessage(p)>>)]
        /\ cpc = <<>>
        /\ cmsg = <<>>
        /\ spc = [s \in {1} |-> "waiting"]
        /\ channel = [s \in {1} |-> <<>>]
        /\ missed = [s \in {1} |->
                        {encode_messages(<<StoredMessage(p)>>) : p \in 1..n}]
        /\ request = [s \in {1} |-> None]
        /\ window = [s \in {1} |-> None]
        /\ fetched = [s \in {1} |-> None]
        /\ reply = [s \in {1} |-> None]
        /\ pushed = [s \in {1} |-> <<>>]
        /\ watch = <<>>

NextFetch ==
    \E s \in DOMAIN spc :
        /\ request[s] = None
        /\ \E msg \in FetchFrames : WebsocketFrame(s, msg)

SpecFetch == InitFetch /\ [][NextFetch]_vars

-----------------------------------------------------------------------------
(* Claims about the ingest path. *)

\* the ids of the stored messages, in log order
LogIds == [i \in DOMAIN redisMessages |-> PickleLoads(redisMessages[i]).id]

\* the calls that hold an id
Assigned == {p \in DOMAIN cpc : cpc[p] # "idle"}

\* C1: the ids the calls hold are pairwise different and are exactly
\* 1..(number of calls holding one), in every interleaving; once every call
\* that started has returned after its publish, the stored ids are exactly
\* 1..N for the N calls.
IdsAreOneToN ==
    /\ \A p, q \in Assigned : p # q => cmsg[p].id # cmsg[q].id
    /\ {cmsg[p].id : p \in Assigned} = 1..Cardinality(Assigned)
    /\ (\A p \in DOMAIN cpc : cpc[p] \in {"idle", "done"})
          => /\ Len(redisMessages) = Cardinality(Assigned)
             /\ {LogIds[i] : i \in DOMAIN LogIds} = 1..Cardinality(Assigned)

\* C1 witness: all calls ran to completion, interleaved (the second id was
\* appended first)
AllCallsDoneInterleaved ==
    /\ \A p \in DOMAIN cpc : cpc[p] = "done"
    /\ LogIds[1] = 2

\* C2: of two stored messages the one earlier in the log has the smaller id
LogOrderIsIdOrder ==
    \A i, j \in DOMAIN LogIds : i < j => LogIds[i] < LogIds[j]

\* C3: while no call has failed between id assignment and append, the
\* message with id k is stored at 1-based position k
IdIsLogPosition ==
    (\A p \in DOMAIN cpc : cpc[p] # "append_failed")
        => \A i \in DOMAIN LogIds : LogIds[i] = i

\* C4 as stated: once a call that holds id k has failed to append, leaving
\* log position k-1 empty, the counter stays advanced and no later step
\* fills that position
GapSlotNeverFilled ==
    [][\A p \in DOMAIN cpc :
          (cpc[p] = "append_failed" /\ Len(redisMessages) < cmsg[p].id)
              => /\ redisId' >= cmsg[p].id
                 /\ Len(redisMessages') < cmsg[p].id]_vars

\* C4 amended: after a call that holds id k failed to append, the counter
\* stays at least k and above the length of the log, and no stored message
\* has id k (the state of a failed call is final, so this is permanent)
GapIsPermanent ==
    \A p \in DOMAIN cpc :
        cpc[p] = "append_failed"
            => /\ redisId >= cmsg[p].id
               /\ redisId > Len(redisMessages)
               /\ \A i \in DOMAIN LogIds : LogIds[i] # cmsg[p].id

\* C4 witness: a call failed to append and a later message fills its slot
GapSlotTakenByLaterMessage ==
    \E p \in DOMAIN cpc :
        /\ cpc[p] = "append_failed"
        /\ Len(redisMessages) >= cmsg[p].id
        /\ LogIds[cmsg[p].id] > cmsg[p].id

-----------------------------------------------------------------------------
(* Claims about backfill. *)

\* the encoded messages of the batch a session last sent in reply
Batch(s) == reply[s][1][2]

\* the log as it stood when that reply was fetched (the list only grows)
LogAtFetch(s) ==
    [i \in 1..fetched[s][1] |-> PickleLoads(redisMessages[i])]

\* C5: a reply batch holds at most 50 messages
ReplyAtMostFifty ==
    \A s \in DOMAIN spc : reply[s] # None => Len(Batch(s)) <= MaxFetch

\* C6: the window handed to the store is [last-50, last] when last > 0 and
\* last - first > 50, [last-50, last] when last < 0, and [first, last]
\* otherwise; first_id=0, last_id=120 gives [70, 120]
WindowPolicy ==
    \A s \in DOMAIN spc :
        request[s] # None =>
            LET first == request[s][1].first_id
                last == request[s][1].last_id
            IN  /\ (last > 0 /\ last - first > MaxFetch)
                      => window[s] = <<last - MaxFetch, last>>
                /\ last < 0 => window[s] = <<last - MaxFetch, last>>
                /\ (~(last > 0 /\ last - first > MaxFetch) /\ ~(last < 0))
                      => window[s] = <<first, last>>
                /\ (first = 0 /\ last = 120) => window[s] = <<70, 120>>

\* C6 witness: the request first_id=0, last_id=120 was answered with the
\* window [70, 120]
WindowPolicyCases ==
    \E s \in DOMAIN spc :
        /\ request[s] = <<Request(0, 120)>>
        /\ window[s] = <<70, 120>>

\* C7: the reply to last_id = -1 is a suffix of the log as it stood at the
\* fetch, in log order, ending with the tail, of at most 50 messages
TailReplyIsRecentSuffix ==
    \A s \in DOMAIN spc :
        (request[s] # None /\ request[s][1].last_id = -1) =>
            LET log == LogAtFetch(s)
                n == Len(Batch(s))
            IN  /\ n <= MaxFetch
                /\ n <= Len(log)
                /\ Len(log) > 0 => n > 0
                /\ \A i \in 1..n :
                       Batch(s)[i] = EncodeMessage(log[Len(log) - n + i])

\* C8: the reply to {first_id: 0, last_id: -1} on a log of N <= 50 messages
\* holds exactly these N messages, in log order, each the encoding of the
\* message a call stored (its id zero-padded, its content escaped); on a
\* log of one message it holds exactly that one
EndToEnd ==
    \A s \in DOMAIN spc :
        (request[s] = <<Request(0, -1)>> /\ fetched[s][1] <= MaxFetch) =>
            LET log == LogAtFetch(s)
            IN  /\ Len(Batch(s)) = Len(log)
                /\ \A i \in DOMAIN log :
                       /\ Batch(s)[i].id = ZFill(Str(log[i].id), IdWidth)
                       /\ \E p \in DOMAIN cpc :
                              /\ cpc[p] \in {"appended", "done"}
                              /\ cmsg[p].id = log[i].id
                              /\ Batch(s)[i].content =
                                     ReplaceNewline(HtmlEscape(cmsg[p].content))

\* C8 witness: one call posted "hi" and completed, and the reply to
\* {first_id: 0, last_id: -1} is that one message
EndToEndOneMessage ==
    \E s \in DOMAIN spc :
        /\ request[s] = <<Request(0, -1)>>
        /\ \E p \in DOMAIN cpc : cpc[p] = "done" /\ cmsg[p].content = <<"h", "i">>
        /\ Len(Batch(s)) = 1
        /\ Batch(s)[1].content = <<"h", "i">>

-----------------------------------------------------------------------------
(* Claims about the broadcast. *)

\* the payloads of the data frames waiting on a session's channel
Waiting(s) ==
    {channel[s][i][3] : i \in {j \in DOMAIN channel[s] :
                                    channel[s][j][1] = "message"}}

\* the payloads a session has forwarded
Forwarded(s) == {pushed[s][i] : i \in DOMAIN pushed[s]}

\* every payload a call of the system can publish (the k-th call to reach
\* r.incr holds id k)
Payloads ==
    UNION {{encode_messages(<<[id |-> k, content |-> c]>>) : c \in Posted(k)} :
              k \in Calls}

NoReplay ==
    /\ [](\A s \in DOMAIN spc : (Waiting(s) \cup Forwarded(s)) \cap missed[s] = {})
    /\ [][(published' # published /\ Subscribed = {})
            => /\ UNCHANGED sessVars
               /\ \E p \in DOMAIN cpc : cpc[p] = "appended" /\ cpc'[p] = "done"]_vars

\* C10 witness: a session subscribed after a publish, and forwarded a
\* later payload
SubscribedAfterPublish ==
    \E s \in DOMAIN spc : missed[s] # {} /\ pushed[s] # <<>>

\* the payloads handed to publish so far
PublishedPayloads == {published[i] : i \in DOMAIN published}

\* session s takes a frame off its pub/sub connection and stays in its loop
ReadsFrame(s) ==
    /\ spc[s] = "waiting"
    /\ spc'[s] = "waiting"
    /\ channel[s] # <<>>
    /\ channel'[s] = Tail(channel[s])

\* C11: a session that reads a control frame from its subscription sends
\* nothing to its client, one that reads a data frame sends exactly the
\* frame's payload, and every frame a session has pushed is a payload that
\* was handed to publish
PushIsPublishedPayload ==
    /\ [](\A s \in DOMAIN spc : Forwarded(s) \subseteq PublishedPayloads)
    /\ [][\A s \in DOMAIN spc :
            ReadsFrame(s) =>
                /\ reply'[s] = reply[s]
                /\ IF Head(channel[s])[1] = "message"
                   THEN /\ pushed'[s] = Append(pushed[s], Head(channel[s])[3])
                        /\ Head(channel[s])[3] \in PublishedPayloads
                   ELSE pushed'[s] = pushed[s]]_vars

\* C11 witness: a session has read the subscribe confirmation and two data
\* frames, and has pushed the two published payloads in publish order
ControlSkippedDataPushed ==
    \E s \in DOMAIN spc :
        /\ spc[s] = "waiting"
        /\ channel[s] = <<>>
        /\ Len(published) = 2
        /\ pushed[s] = published

\* C12: a session whose last passes through the loop were keepalive
\* timeouts that found no client frame is in its loop, and each such
\* timeout leaves what it has sent its client, and its subscription, as
\* they were
IdleTimeoutsKeepSession ==
    /\ [](\A s \in DOMAIN watch : watch[s].timeouts > 0 => spc[s] = "waiting")
    /\ [][\A s \in DOMAIN watch :
            watch'[s].timeouts > watch[s].timeouts =>
                /\ spc[s] = "waiting"
                /\ spc'[s] = "waiting"
                /\ reply'[s] = reply[s]
                /\ pushed'[s] = pushed[s]
                /\ channel'[s] = channel[s]]_vars

\* C12 witness: a session that never got a client frame or a broadcast has
\* had MaxTimeouts keepalive timeouts in a row and is waiting
IdleThroughTimeouts ==
    \E s \in DOMAIN watch :
        /\ watch[s].timeouts = MaxTimeouts
        /\ spc[s] = "waiting"
        /\ request[s] = None
        /\ reply[s] = None
        /\ pushed[s] = <<>>

\* the passes through the loop that end in a transport failure: reading the
\* client stream, sending a reply batch, sending a forwarded payload, reading
\* the pub/sub connection
TransportFailures ==
    {"recv_error", "reply_error", "push_error", "subscription_error"}

\* C13: a session whose last pass through the loop met a transport failure
\* has let go of its subscription and returned, with no exception leaving
\* get()
TransportFailureTerminates ==
    \A s \in DOMAIN watch :
        watch[s].event \in TransportFailures =>
            /\ spc[s] = "terminated"
            /\ channel[s] = <<>>

\* C14: a session whose last client frame was malformed is still in its
\* loop, subscribed, ready for later frames and broadcasts
MalformedFrameKeepsSession ==
    \A s \in DOMAIN watch :
        watch[s].event = "malformed" => spc[s] = "waiting"

\* what session t holds: its place in get(), its subscription, its locals
\* and what it has sent its client
SessionState(t) ==
    <<spc[t], channel[t], missed[t], request[t], window[t], fetched[t],
      reply[t], pushed[t]>>

\* C15: a step in which a session leaves its loop, by a return or by an
\* exception, changes no other session's state, and every session in its
\* loop holds each payload published since it subscribed, unread on its
\* channel or pushed to its client, whatever became of the other sessions
SessionsAreIsolated ==
    /\ [](\A t \in DOMAIN spc :
            spc[t] = "waiting" =>
                \A i \in DOMAIN published :
                    published[i] \notin missed[t] =>
                        published[i] \in Waiting(t) \cup Forwarded(t))
    /\ [][\A s \in DOMAIN spc :
            (spc[s] = "waiting" /\ spc'[s] \in {"terminated", "raised"}) =>
                \A t \in DOMAIN spc \ {s} : SessionState(t)' = SessionState(t)]_vars

\* C15 witness: two sessions were subscribed at the publish; one has pushed
\* nothing and is gone by an exception, the other is in its loop and has
\* pushed the payload
OneFailedOtherServed ==
    \E s, t \in DOMAIN spc :
        /\ spc[s] = "raised"
        /\ missed[s] = {}
        /\ pushed[s] = <<>>
        /\ spc[t] = "waiting"
        /\ missed[t] = {}
        /\ Len(published) > 0
        /\ pushed[t] = published

\* C16: whatever the sessions are doing, the next step of a started ingest
\* call can be taken: an idle call at its turn can get its id, a call with
\* an id can append, a call that has appended can publish and return
IngestNeverWaitsOnSessions ==
    \A p \in DOMAIN cpc :
        /\ (cpc[p] = "idle" /\ \A q \in DOMAIN cpc : q < p => cpc[q] # "idle")
               => ENABLED (\E content \in Posted(p) : Incr(p, content))
        /\ cpc[p] = "assigned" => ENABLED Rpush(p)
        /\ cpc[p] = "appended" => ENABLED Publish(p)

\* C16 witness: every ingest call has returned while a session in its loop
\* has read nothing: the subscribe confirmation and the payloads are unread
ReturnedWhileSessionLags ==
    /\ \A p \in DOMAIN cpc : cpc[p] = "done"
    /\ \E s \in DOMAIN spc :
        /\ spc[s] = "waiting"
        /\ Len(channel[s]) = Len(published) + 1
        /\ pushed[s] = <<>>

\* C17: in every step the list of messages is as it was or is as it was with
\* one message more at its tail, and a step that changes anything of a
\* session leaves the list and the id counter as they were
LogIsWriteOnce ==
    [][/\ \/ redisMessages' = redisMessages
          \/ /\ Len(redisMessages') = Len(redisMessages) + 1
             /\ SubSeq(redisMessages', 1, Len(redisMessages)) = redisMessages
       /\ sessVars' # sessVars => UNCHANGED storeVars]_vars

\* C17 witness: two messages are stored, and a session has answered a
\* backfill request and pushed a payload
TwoStoredSessionServed ==
    /\ Len(redisMessages) = 2
    /\ \E s \in DOMAIN spc : reply[s] # None /\ pushed[s] # <<>>

\* C18: for 0 <= first_id <= last_id with last_id - first_id <= 50 the reply
\* holds exactly the stored messages at the 0-based positions first_id to
\* last_id that exist, in log order; on a gapless log these are the ids
\* first_id + 1 to last_id + 1, and first_id = last_id = k gives the message
\* with id k + 1
IndexesArePositions ==
    \A s \in DOMAIN spc :
        request[s] # None =>
            LET first == request[s][1].first_id
                last == request[s][1].last_id
                log == LogAtFetch(s)
                stop == IF last < Len(log) THEN last ELSE Len(log) - 1
                count == IF first <= stop THEN stop - first + 1 ELSE 0
            IN  (0 <= first /\ first <= last /\ last - first <= MaxFetch) =>
                    /\ Len(Batch(s)) = count
                    /\ \A i \in 1..count :
                           /\ Batch(s)[i] = EncodeMessage(log[first + i])
                           /\ Batch(s)[i].id = ZFill(Str(first + i), IdWidth)
                    /\ (first = last /\ first < Len(log)) =>
                           /\ Len(Batch(s)) = 1
                           /\ Batch(s)[1].id = ZFill(Str(first + 1), IdWidth)

\* C18 witness: the request first_id = 1, last_id = 1 on a log of three
\* messages was answered with the one message of id 2
PositionOneIsIdTwo ==
    \E s \in DOMAIN spc :
        /\ request[s] = <<Request(1, 1)>>
        /\ fetched[s][1] = 3
        /\ Len(Batch(s)) = 1
        /\ Batch(s)[1].id = ZFill(Str(2), IdWidth)

\* the payloads of the stored messages, each encoded alone as post does
StoredPayloads ==
    {encode_messages(<<PickleLoads(redisMessages[i])>>) :
        i \in DOMAIN redisMessages}

\* C19: every payload handed to publish, waiting on a session's channel or
\* pushed by a session encodes a message that is in the list
PublishedIsStored ==
    /\ PublishedPayloads \subseteq StoredPayloads
    /\ \A s \in DOMAIN spc : Waiting(s) \cup Forwarded(s) \subseteq StoredPayloads

\* C19 witness: one call has published and a session has pushed its payload
\* while another call holds an id it has not appended
PushedWhileOtherPending ==
    /\ \E p \in DOMAIN cpc : cpc[p] = "assigned"
    /\ \E s \in DOMAIN spc : pushed[s] # <<>>

\* the calls that hold an id and have not appended: between lines 83 and 84,
\* or ended by an rpush that raised
IdWithoutAppend == {p \in DOMAIN cpc : cpc[p] \in {"assigned", "append_failed"}}

\* C20: the id counter is never below the length of the list, it is ahead
\* of it by exactly the number of calls that hold an id and have not
\* appended, and no step lowers it
CounterAheadByPending ==
    /\ [](/\ redisId >= Len(redisMessages)
          /\ redisId - Len(redisMessages) = Cardinality(IdWithoutAppend))
    /\ [][redisId' >= redisId]_vars

\* C20 witness: one call's rpush has failed and another call holds an id it
\* has not appended yet: the counter is two ahead of the list
CounterTwoAhead ==
    /\ \E p, q \in DOMAIN cpc :
           cpc[p] = "append_failed" /\ cpc[q] = "assigned"
    /\ redisId = Len(redisMessages) + 2

=============================================================================
